---- MODULE Spec2Model ----
(***************************************************************************)
(* Client-side synchronisation protocol of the HidroTakip task tracker:    *)
(* the App component's sync state (src/App.tsx) and the remote sync client *)
(* (src/unnamed/part_001, imported as ./services/storageService).          *)
(*                                                                         *)
(* One action is one run-to-completion piece of the single JavaScript      *)
(* thread: an event handler, an effect, or the continuation of an awaited  *)
(* request, together with the re-render and the effects it triggers.       *)
(* Values a continuation reads from its closure are the values of the      *)
(* render in which the closure was created; they travel with the request.  *)
(***************************************************************************)
EXTENDS Integers, Sequences, FiniteSets, TLC

VARIABLES
    phase,         \* "init" before the mount effects ran, then "running"
    tasks,         \* useState tasks            (App.tsx:14)
    cloudId,       \* useState cloudId          (App.tsx:28), NoId is null
    syncStatus,    \* useState syncStatus       (App.tsx:30)
    lastSyncTime,  \* useState lastSyncTime     (App.tsx:31)
    lsCloudId,     \* localStorage hidro_cloud_id, NoId when absent
    lsTasks,       \* localStorage hidro_tasks
    remote,        \* the key-value store: bucket -> stored value
    net,           \* HTTP requests in flight, in the order they were issued
    now,           \* Date.now()
    last,          \* the step taken last and its inputs
    pushFailed,    \* history: a mutation push failed while this bucket was active
    newest,        \* history: how the request issued last has ended
    overtaken,     \* history: the store took a write while an older one was pending
    ops,           \* how many mutations, poll ticks and connects happened
    arg,           \* the argument a function of the client is called with
    ret            \* what the call returned

vars == <<phase, tasks, cloudId, syncStatus, lastSyncTime, lsCloudId, lsTasks,
          remote, net, now, last, pushFailed, newest, overtaken, ops,
          arg, ret>>

----------------------------------------------------------------------------
(* Bounds of the exploration *)

\* The number of events the exploration lets the user and the poll timer
\* start: local mutations, poll ticks and connects.
MaxOps == 2

----------------------------------------------------------------------------
(* Tasks and task collections *)

Statuses == {"PENDING", "IN_PROGRESS", "COMPLETED"}

\* The statuses the exploration lets handleUpdateStatus set.
NewStatuses == {"COMPLETED"}

\* A task with an image, and a task created with no image selected:
\* imageUrl: taskImage || undefined. Reading a property that is missing
\* gives undefined as well.
TaskWithImage(id, st, img) == [id |-> id, status |-> st, imageUrl |-> img]
Task(id, st) == TaskWithImage(id, st, "undefined")

\* The collection the component starts with (./constants).
INITIAL_TASKS == <<Task("i1", "PENDING")>>

\* A serialisation that writes the id and the status of a task only.
RECURSIVE StringifyWithoutImage(_)
StringifyWithoutImage(ts) ==
    IF ts = <<>> THEN <<"]">>
    ELSE <<"{id:", Head(ts).id, ",status:", Head(ts).status, "}">>
         \o StringifyWithoutImage(Tail(ts))

\* JSON.stringify of a task collection: the text, token by token. A
\* property whose value is undefined is left out of the text.
RECURSIVE Stringify(_)
Stringify(ts) ==
    IF ts = <<>> THEN <<"]">>
    ELSE <<"{id:", Head(ts).id, ",status:", Head(ts).status>>
         \o (IF Head(ts).imageUrl = "undefined" THEN <<>>
             ELSE <<",imageUrl:", Head(ts).imageUrl>>)
         \o <<"}">> \o Stringify(Tail(ts))

\* JSON.parse / response.json(): kind "array" with the collection, kind
\* "other" for JSON that is no array, kind "throws" for text that is no JSON.
RECURSIVE ParseTasks(_)
ParseTasks(text) ==
    IF text = <<"]">> THEN <<>>
    ELSE IF text[5] = "}"
    THEN <<Task(text[2], text[4])>> \o ParseTasks(SubSeq(text, 6, Len(text)))
    ELSE <<TaskWithImage(text[2], text[4], text[6])>>
         \o ParseTasks(SubSeq(text, 8, Len(text)))

RECURSIVE IsArrayText(_)
IsArrayText(text) ==
    \/ text = <<"]">>
    \/ /\ Len(text) >= 6
       /\ text[1] = "{id:" /\ text[3] = ",status:" /\ text[5] = "}"
       /\ IsArrayText(SubSeq(text, 6, Len(text)))
    \/ /\ Len(text) >= 8
       /\ text[1] = "{id:" /\ text[3] = ",status:"
       /\ text[5] = ",imageUrl:" /\ text[7] = "}"
       /\ IsArrayText(SubSeq(text, 8, Len(text)))

JsonParse(text) ==
    IF IsArrayText(text) THEN [kind |-> "array", data |-> ParseTasks(text)]
    ELSE IF text = <<"{}">> THEN [kind |-> "other", data |-> <<>>]
    ELSE [kind |-> "throws", data |-> <<>>]

\* Math.random().toString(36).substr(2, 9): an identifier no task has yet.
NewTaskId(n) == "n" \o ToString(n)

\* tasks.map(t => t.id !== taskId ? t : {...t, status: newStatus})
MapStatus(ts, taskId, newStatus) ==
    [i \in 1..Len(ts) |->
        IF ts[i].id # taskId THEN ts[i] ELSE [ts[i] EXCEPT !.status = newStatus]]

----------------------------------------------------------------------------
(* Bucket identifiers: strings as sequences of characters *)

NoId == <<>>

UpperCase == <<"A","B","C","D","E","F","G","H","I","J","K","L","M",
               "N","O","P","Q","R","S","T","U","V","W","X","Y","Z">>
LowerCase == <<"a","b","c","d","e","f","g","h","i","j","k","l","m",
               "n","o","p","q","r","s","t","u","v","w","x","y","z">>
Digits == {"0","1","2","3","4","5","6","7","8","9"}
WhiteSpace == {" ", "\t", "\n"}

Range(f) == {f[i] : i \in DOMAIN f}

\* The character class [a-zA-Z0-9-_] of the replace() pattern.
IsIdChar(c) ==
    c \in Range(UpperCase) \cup Range(LowerCase) \cup Digits \cup {"-", "_"}

\* String.prototype.toLowerCase on one character.
ToLowerChar(c) ==
    IF c \in Range(UpperCase)
    THEN LowerCase[CHOOSE i \in DOMAIN UpperCase : UpperCase[i] = c]
    ELSE c

\* String.prototype.trim
RECURSIVE TrimLeft(_)
TrimLeft(s) ==
    IF s # <<>> /\ Head(s) \in WhiteSpace THEN TrimLeft(Tail(s)) ELSE s

RECURSIVE TrimRight(_)
TrimRight(s) ==
    IF s # <<>> /\ s[Len(s)] \in WhiteSpace
    THEN TrimRight(SubSeq(s, 1, Len(s) - 1)) ELSE s

Trim(s) == TrimRight(TrimLeft(s))

\* A normalisation that puts a space where the pattern matches.
CleanIdWithSpaces(s) ==
    LET t == Trim(s)
        r == [i \in 1..Len(t) |-> IF IsIdChar(t[i]) THEN t[i] ELSE " "]
    IN  [i \in 1..Len(r) |-> ToLowerChar(r[i])]

\* A normalisation that keeps the case of the letters.
CleanIdKeepsCase(s) ==
    LET t == Trim(s)
    IN  [i \in 1..Len(t) |-> IF IsIdChar(t[i]) THEN t[i] ELSE "-"]

\* inputCloudId.trim().replace(/[^a-zA-Z0-9-_]/g, '-').toLowerCase()
CleanId(s) ==
    LET t == Trim(s)
        r == [i \in 1..Len(t) |-> IF IsIdChar(t[i]) THEN t[i] ELSE "-"]
    IN  [i \in 1..Len(r) |-> ToLowerChar(r[i])]

\* A length check that is off by one.
IdAcceptedOffByOne(cleanId) == Len(cleanId) >= 2

\* the length check that follows: cleanId.length < 3 is rejected
IdAccepted(cleanId) == Len(cleanId) >= 3

\* What the user may type into the factory-code field.
RawIds == { <<" ", "a", "b", " ">>,
            <<"A", " ", "b">> }

\* The buckets of the store that this client can address.
Buckets == { CleanId(r) : r \in {x \in RawIds : IdAccepted(CleanId(x))} }

----------------------------------------------------------------------------
(* The remote key-value store and the HTTP exchange *)

\* What the store holds under {bucket}/tasks: nothing, or a text.
Absent == [exists |-> FALSE, text |-> <<>>]
Stored(text) == [exists |-> TRUE, text |-> text]

\* A request that has not been answered yet, and the possible answers:
\* status "200", "404", "500" (any other HTTP status), "neterr" (fetch throws).
NoResp == [status |-> "pending", text |-> <<>>]
Resp(status, text) == [status |-> status, text |-> text]

\* GET {base}/{bucket}/tasks: 200 with the stored text, or 404.
HttpGet(store, id) ==
    IF store[id].exists THEN Resp("200", store[id].text) ELSE Resp("404", <<>>)

\* POST {base}/{bucket}/tasks: full replace of what is stored.
HttpPost(store, id, body) == [store EXCEPT ![id] = Stored(body)]

\* A request in flight. kind: "init" (startup fetch), "poll", "push" (of a
\* local mutation), "connFetch", "connPush" (the two awaits of connect).
\* capTasks and capStatus are the tasks and syncStatus of the closure that
\* issued the request.
Req(kind, id, body, capTasks, capStatus) ==
    [kind |-> kind, id |-> id, body |-> body,
     capTasks |-> capTasks, capStatus |-> capStatus, resp |-> NoResp]

NoReq == Req("none", NoId, <<>>, <<>>, "offline")

IsGet(r) == r.kind \in {"init", "poll", "connFetch"}

\* SyncResult of fetchCloudTasks for an answered request.
\* hasData says whether the data field is set at all.
Result(success, hasData, data, error) ==
    [success |-> success, hasData |-> hasData, data |-> data, error |-> error]

\* A fetch that treats a bucket that does not exist as a remote error.
FetchCloudTasksResultNotFoundFails(resp) ==
    IF resp.status = "neterr"
    THEN Result(FALSE, FALSE, <<>>, "offline")
    ELSE IF resp.status = "200"
    THEN LET result == JsonParse(resp.text)
         IN  IF result.kind = "throws" THEN Result(FALSE, FALSE, <<>>, "offline")
             ELSE IF result.kind = "array" THEN Result(TRUE, TRUE, result.data, "none")
             ELSE Result(TRUE, TRUE, <<>>, "none")
    ELSE Result(FALSE, FALSE, <<>>, "remote")

FetchCloudTasksResult(resp) ==
    IF resp.status = "neterr"
    THEN Result(FALSE, FALSE, <<>>, "offline")
    ELSE IF resp.status = "200"
    THEN LET result == JsonParse(resp.text)
         IN  IF result.kind = "throws" THEN Result(FALSE, FALSE, <<>>, "offline")
             ELSE IF result.kind = "array" THEN Result(TRUE, TRUE, result.data, "none")
             ELSE Result(TRUE, TRUE, <<>>, "none")
    ELSE IF resp.status = "404"
    THEN Result(TRUE, TRUE, <<>>, "NOT_FOUND")
    ELSE Result(FALSE, FALSE, <<>>, "remote")

\* A push that reports success for whatever the server answered.
UpdateCloudTasksResultAnyAnswer(resp) ==
    IF resp.status = "neterr"
    THEN Result(FALSE, FALSE, <<>>, "offline")
    ELSE Result(TRUE, FALSE, <<>>, "none")

\* SyncResult of updateCloudTasks for an answered request.
UpdateCloudTasksResult(resp) ==
    IF resp.status = "neterr"
    THEN Result(FALSE, FALSE, <<>>, "offline")
    ELSE IF resp.status = "200"
    THEN Result(TRUE, FALSE, <<>>, "none")
    ELSE Result(FALSE, FALSE, <<>>, "remote")

\* Sequence s without its i-th element.
Remove(s, i) == SubSeq(s, 1, i - 1) \o SubSeq(s, i + 1, Len(s))

----------------------------------------------------------------------------
(* Initial state: the component constructed, nothing mounted yet *)

\* What an earlier session may have left in localStorage under hidro_tasks.
SavedSeeds == { <<Task("s1", "IN_PROGRESS")>> }

\* What other devices may have stored in a bucket before this session.
RemoteSeeds == { <<>>, <<Task("r1", "PENDING")>> }

\* The step taken last: its name, the request it issued or completed, the
\* text the user typed and the answer to the confirm() dialog.
Last(op, req, raw, confirm) ==
    [op |-> op, req |-> req, raw |-> raw, confirm |-> confirm]

\* The request issued last: its kind and how it ended, "inflight" until its
\* continuation ran, then "ok" or "failed" as the client saw it.
Newest(kind) == [kind |-> kind, end |-> "inflight"]

\* Requests stay in net in the order of issue, so the one issued last is
\* the last of net for as long as it is in flight.
NewestAfter(i, ok) ==
    IF newest.end = "inflight" /\ i = Len(net)
    THEN [newest EXCEPT !.end = IF ok THEN "ok" ELSE "failed"]
    ELSE newest

\* A call of a function of the client examined on its own: the function, the
\* bucket and the HTTP answer (fetchCloudTasks, updateCloudTasks) or the text
\* typed (the normalisation in handleConnectCloud); and what it returned.
Call(fn, id, resp, raw) == [fn |-> fn, id |-> id, resp |-> resp, raw |-> raw]
Returned(fn, result, id) == [fn |-> fn, result |-> result, id |-> id]

\* No call is under examination while the application runs.
NoArg == Call("none", NoId, NoResp, <<>>)
NoRet == Returned("none", Result(FALSE, FALSE, <<>>, "none"), NoId)

Init ==
    /\ phase = "init"
    /\ tasks = INITIAL_TASKS
    /\ cloudId = NoId
    /\ syncStatus = "offline"
    /\ now = 0
    /\ lastSyncTime = now
    /\ lsCloudId \in {NoId} \cup Buckets
    /\ lsTasks \in {<<>>} \cup {Stringify(ts) : ts \in SavedSeeds}
    /\ remote \in [Buckets -> {Absent} \cup {Stored(Stringify(ts)) : ts \in RemoteSeeds}]
    /\ net = <<>>
    /\ last = Last("none", NoReq, <<>>, FALSE)
    /\ pushFailed = FALSE
    /\ newest = [kind |-> "none", end |-> "none"]
    /\ overtaken = FALSE
    /\ ops = 0
    /\ arg = NoArg
    /\ ret = NoRet

\* Date.now() read in a later step: time has passed since the last reading.
DateNow == now + 1

----------------------------------------------------------------------------
(* Mount: the three effects of the first render, App.tsx:36-87 *)

Mount ==
    /\ phase = "init"
    /\ phase' = "running"
    /\ IF lsCloudId # NoId
       THEN /\ cloudId' = lsCloudId
            /\ syncStatus' = "syncing"
            /\ net' = Append(net, Req("init", lsCloudId, <<>>, tasks, syncStatus))
            /\ newest' = Newest("init")
            /\ tasks' = tasks
       ELSE /\ tasks' = IF lsTasks # <<>> THEN JsonParse(lsTasks).data ELSE tasks
            /\ UNCHANGED <<cloudId, syncStatus, net, newest>>
    /\ lsTasks' = Stringify(tasks')
    /\ last' = Last("mount", NoReq, <<>>, FALSE)
    /\ UNCHANGED <<arg, ret, overtaken>>
    /\ UNCHANGED <<lastSyncTime, lsCloudId, remote, now, pushFailed, ops>>

\* A startup load whose continuation has no failure branch: a failed fetch
\* leaves the status as it is.
InitFetchResolveSilentFailure(i) ==
    /\ net[i].kind = "init" /\ net[i].resp.status # "pending"
    /\ LET res == FetchCloudTasksResult(net[i].resp)
       IN  /\ IF res.success /\ res.hasData
              THEN /\ tasks' = IF Len(res.data) > 0 THEN res.data ELSE tasks
                   /\ syncStatus' = "online"
              ELSE /\ tasks' = tasks
                   /\ syncStatus' = syncStatus
           /\ lsTasks' = IF res.success /\ res.hasData /\ Len(res.data) > 0
                         THEN Stringify(tasks') ELSE lsTasks
           /\ newest' = NewestAfter(i, res.success)
    /\ net' = Remove(net, i)
    /\ last' = Last("initResolve", net[i], <<>>, FALSE)
    /\ UNCHANGED <<arg, ret, overtaken>>
    /\ UNCHANGED <<phase, cloudId, lastSyncTime, lsCloudId, remote, now,
                   pushFailed, ops>>

\* A startup load that puts the fetched collection into the task store
\* without the persisted copy being rewritten.
InitFetchResolveUnpersisted(i) ==
    /\ net[i].kind = "init" /\ net[i].resp.status # "pending"
    /\ LET res == FetchCloudTasksResult(net[i].resp)
       IN  /\ IF res.success /\ res.hasData
              THEN /\ tasks' = IF Len(res.data) > 0 THEN res.data ELSE tasks
                   /\ syncStatus' = "online"
              ELSE /\ tasks' = tasks
                   /\ syncStatus' = "error"
           /\ lsTasks' = lsTasks
           /\ newest' = NewestAfter(i, res.success)
    /\ net' = Remove(net, i)
    /\ last' = Last("initResolve", net[i], <<>>, FALSE)
    /\ UNCHANGED <<arg, ret, overtaken>>
    /\ UNCHANGED <<phase, cloudId, lastSyncTime, lsCloudId, remote, now,
                   pushFailed, ops>>

\* Continuation of the startup fetch, App.tsx:47-56, with the persistence
\* effect of the render it causes, App.tsx:85-87.
InitFetchResolve(i) ==
    /\ net[i].kind = "init" /\ net[i].resp.status # "pending"
    /\ LET res == FetchCloudTasksResult(net[i].resp)
       IN  /\ IF res.success /\ res.hasData
              THEN /\ tasks' = IF Len(res.data) > 0 THEN res.data ELSE tasks
                   /\ syncStatus' = "online"
              ELSE /\ tasks' = tasks
                   /\ syncStatus' = "error"
           /\ lsTasks' = IF res.success /\ res.hasData /\ Len(res.data) > 0
                         THEN Stringify(tasks') ELSE lsTasks
           /\ newest' = NewestAfter(i, res.success)
    /\ net' = Remove(net, i)
    /\ last' = Last("initResolve", net[i], <<>>, FALSE)
    /\ UNCHANGED <<arg, ret, overtaken>>
    /\ UNCHANGED <<phase, cloudId, lastSyncTime, lsCloudId, remote, now,
                   pushFailed, ops>>

----------------------------------------------------------------------------
(* The remote end answers one request *)

\* the write net[i] reaches the store while an older write to the same bucket
\* has not reached it yet
Overtakes(i) ==
    /\ ~IsGet(net[i])
    /\ \E j \in 1..(i - 1) :
           /\ ~IsGet(net[j])
           /\ net[j].id = net[i].id
           /\ net[j].resp.status = "pending"

ServerHandle(i, outcome) ==
    /\ net[i].resp.status = "pending"
    /\ IF outcome = "ok"
       THEN IF IsGet(net[i])
            THEN /\ net' = [net EXCEPT ![i].resp = HttpGet(remote, net[i].id)]
                 /\ remote' = remote
            ELSE /\ net' = [net EXCEPT ![i].resp = Resp("200", <<>>)]
                 /\ remote' = HttpPost(remote, net[i].id, net[i].body)
       ELSE /\ net' = [net EXCEPT ![i].resp = Resp(outcome, <<>>)]
            /\ remote' = remote
    /\ overtaken' = (overtaken \/ (outcome = "ok" /\ Overtakes(i)))
    /\ last' = Last("server", NoReq, <<>>, FALSE)
    /\ UNCHANGED <<arg, ret>>
    /\ UNCHANGED <<ops, phase, tasks, cloudId, syncStatus, lastSyncTime,
                   lsCloudId, lsTasks, now, pushFailed, newest>>

----------------------------------------------------------------------------
(* Local mutations, App.tsx:106-163 *)

\* A completion that writes the pushed collection back into the store.
PushThenApplyPushed(res, req, cur, t) ==
    IF res.success
    THEN [cur EXCEPT !.tasks = JsonParse(req.body).data,
                     !.syncStatus = "online", !.lastSyncTime = t]
    ELSE [cur EXCEPT !.syncStatus = "error"]

\* A completion that rolls a failed mutation back.
PushThenRollback(res, req, cur, t) ==
    IF res.success
    THEN [cur EXCEPT !.syncStatus = "online", !.lastSyncTime = t]
    ELSE [cur EXCEPT !.tasks = req.capTasks, !.syncStatus = "error"]

\* A completion that reports success only and leaves a failure unshown.
PushThenSilentFailure(res, req, cur, t) ==
    IF res.success
    THEN [cur EXCEPT !.syncStatus = "online", !.lastSyncTime = t]
    ELSE cur

\* The .then() of the fire-and-forget push, App.tsx:112-119: the new values
\* of tasks, syncStatus and lastSyncTime, given the current ones (cur), the
\* request the push was sent with and the reading t of Date.now().
PushThen(res, req, cur, t) ==
    IF res.success
    THEN [cur EXCEPT !.syncStatus = "online", !.lastSyncTime = t]
    ELSE [cur EXCEPT !.syncStatus = "error"]

Cur == [tasks |-> tasks, syncStatus |-> syncStatus, lastSyncTime |-> lastSyncTime]

\* A mutation that starts the push without showing the syncing status.
UpdateTasksAndSyncSilent(op, newTasks) ==
    /\ phase = "running"
    /\ ops < MaxOps
    /\ ops' = ops + 1
    /\ tasks' = newTasks
    /\ lsTasks' = Stringify(newTasks)
    /\ IF cloudId # NoId
       THEN /\ syncStatus' = syncStatus
            /\ net' = Append(net, Req("push", cloudId, Stringify(newTasks), tasks, syncStatus))
            /\ newest' = Newest("push")
       ELSE UNCHANGED <<syncStatus, net, newest>>
    /\ last' = Last(op, NoReq, <<>>, FALSE)
    /\ UNCHANGED <<arg, ret, overtaken>>
    /\ UNCHANGED <<phase, cloudId, lastSyncTime, lsCloudId, remote, now,
                   pushFailed>>

\* updateTasksAndSync pushing the collection of the render it was called
\* in instead of the new one.
UpdateTasksAndSyncPushesOld(op, newTasks) ==
    /\ phase = "running"
    /\ ops < MaxOps
    /\ ops' = ops + 1
    /\ tasks' = newTasks
    /\ lsTasks' = Stringify(newTasks)
    /\ IF cloudId # NoId
       THEN /\ syncStatus' = "syncing"
            /\ net' = Append(net, Req("push", cloudId, Stringify(tasks), tasks, syncStatus))
            /\ newest' = Newest("push")
       ELSE UNCHANGED <<syncStatus, net, newest>>
    /\ last' = Last(op, NoReq, <<>>, FALSE)
    /\ UNCHANGED <<arg, ret, overtaken>>
    /\ UNCHANGED <<phase, cloudId, lastSyncTime, lsCloudId, remote, now,
                   pushFailed>>

\* updateTasksAndSync, App.tsx:106-121, with the persistence effect of the
\* render it causes, App.tsx:85-87.
UpdateTasksAndSync(op, newTasks) ==
    /\ phase = "running"
    /\ ops < MaxOps
    /\ ops' = ops + 1
    /\ tasks' = newTasks
    /\ lsTasks' = Stringify(newTasks)
    /\ IF cloudId # NoId
       THEN /\ syncStatus' = "syncing"
            /\ net' = Append(net, Req("push", cloudId, Stringify(newTasks), tasks, syncStatus))
            /\ newest' = Newest("push")
       ELSE UNCHANGED <<syncStatus, net, newest>>
    /\ last' = Last(op, NoReq, <<>>, FALSE)
    /\ UNCHANGED <<arg, ret, overtaken>>
    /\ UNCHANGED <<phase, cloudId, lastSyncTime, lsCloudId, remote, now,
                   pushFailed>>

HandleCreateTask ==
    UpdateTasksAndSync("createTask", <<Task(NewTaskId(ops + 1), "PENDING")>> \o tasks)

HandleUpdateStatus(taskId, newStatus) ==
    UpdateTasksAndSync("updateStatus", MapStatus(tasks, taskId, newStatus))

PushResolve(i) ==
    /\ net[i].kind = "push" /\ net[i].resp.status # "pending"
    /\ LET res == UpdateCloudTasksResult(net[i].resp)
           new == PushThen(res, net[i], Cur, DateNow)
       IN  /\ now' = IF new.lastSyncTime = lastSyncTime THEN now ELSE DateNow
           /\ tasks' = new.tasks
           /\ syncStatus' = new.syncStatus
           /\ lastSyncTime' = new.lastSyncTime
           /\ lsTasks' = IF new.tasks # tasks THEN Stringify(new.tasks) ELSE lsTasks
           /\ pushFailed' = (pushFailed \/ (~res.success /\ net[i].id = cloudId))
           /\ newest' = NewestAfter(i, res.success)
    /\ net' = Remove(net, i)
    /\ last' = Last("pushResolve", net[i], <<>>, FALSE)
    /\ UNCHANGED <<arg, ret, overtaken>>
    /\ UNCHANGED <<phase, cloudId, lsCloudId, remote, ops>>

----------------------------------------------------------------------------
(* The poll loop, App.tsx:65-82 *)

\* An interval that is set up once a bucket was persisted and never cleared.
PollActiveNoCleanup == cloudId # NoId \/ last.op = "disconnect"

\* if (!cloudId) return;  and the cleanup that clears the interval
PollActive == cloudId # NoId

\* A callback that takes over an empty remote collection as well.
PollThenEmptyReplaces(res, req, cur, t) ==
    IF res.success /\ res.hasData
    THEN LET differs == Stringify(res.data) # Stringify(req.capTasks)
         IN  [tasks |-> IF differs THEN res.data ELSE cur.tasks,
              lastSyncTime |-> IF differs THEN t ELSE cur.lastSyncTime,
              syncStatus |-> IF req.capStatus # "online" THEN "online"
                             ELSE cur.syncStatus]
    ELSE cur

\* The interval callback after its await, App.tsx:71-78. req carries the
\* tasks and syncStatus of the render that created the interval.
PollThen(res, req, cur, t) ==
    IF res.success /\ res.hasData /\ Len(res.data) > 0
    THEN LET differs == Stringify(res.data) # Stringify(req.capTasks)
         IN  [tasks |-> IF differs THEN res.data ELSE cur.tasks,
              lastSyncTime |-> IF differs THEN t ELSE cur.lastSyncTime,
              syncStatus |-> IF req.capStatus # "online" THEN "online"
                             ELSE cur.syncStatus]
    ELSE cur

PollTick ==
    /\ phase = "running"
    /\ PollActive
    /\ ops < MaxOps
    /\ ops' = ops + 1
    /\ net' = Append(net, Req("poll", cloudId, <<>>, tasks, syncStatus))
    /\ newest' = Newest("poll")
    /\ last' = Last("pollTick", NoReq, <<>>, FALSE)
    /\ UNCHANGED <<arg, ret, overtaken>>
    /\ UNCHANGED <<phase, tasks, cloudId, syncStatus, lastSyncTime,
                   lsCloudId, lsTasks, remote, now, pushFailed>>

PollResolve(i) ==
    /\ net[i].kind = "poll" /\ net[i].resp.status # "pending"
    /\ LET res == FetchCloudTasksResult(net[i].resp)
           new == PollThen(res, net[i], Cur, DateNow)
       IN  /\ now' = IF new.lastSyncTime = lastSyncTime THEN now ELSE DateNow
           /\ tasks' = new.tasks
           /\ syncStatus' = new.syncStatus
           /\ lastSyncTime' = new.lastSyncTime
           /\ lsTasks' = IF new.tasks # tasks THEN Stringify(new.tasks) ELSE lsTasks
           /\ newest' = NewestAfter(i, res.success)
    /\ net' = Remove(net, i)
    /\ last' = Last("pollResolve", net[i], <<>>, FALSE)
    /\ UNCHANGED <<arg, ret, overtaken>>
    /\ UNCHANGED <<phase, cloudId, lsCloudId, remote, pushFailed, ops>>

----------------------------------------------------------------------------
(* connect and disconnect, App.tsx:190-241 *)

\* The client state connect and disconnect write.
Conn == [tasks |-> tasks, cloudId |-> cloudId, lsCloudId |-> lsCloudId,
         syncStatus |-> syncStatus]

\* A success flow that activates the bucket without persisting its id.
ConnectSuccessUnpersisted(cur, cleanId) ==
    [cur EXCEPT !.cloudId = cleanId, !.syncStatus = "online"]

\* The success flow, App.tsx:224-226.
ConnectSuccess(cur, cleanId) ==
    [cur EXCEPT !.cloudId = cleanId, !.lsCloudId = cleanId, !.syncStatus = "online"]

\* A connect that loads the remote collection without asking.
ConnectFetchThenNoConfirm(res, cleanId, confirm, cur) ==
    IF res.success
    THEN IF res.hasData /\ Len(res.data) > 0
         THEN ConnectSuccess([cur EXCEPT !.tasks = res.data], cleanId)
         ELSE ConnectSuccess(cur, cleanId)
    ELSE [cur EXCEPT !.syncStatus = "error"]

\* A connect whose success flow also runs after a failed fetch.
ConnectFetchThenAlways(res, cleanId, confirm, cur) ==
    IF res.success
    THEN IF res.hasData /\ Len(res.data) > 0 /\ confirm
         THEN ConnectSuccess([cur EXCEPT !.tasks = res.data], cleanId)
         ELSE ConnectSuccess(cur, cleanId)
    ELSE [ConnectSuccess(cur, cleanId) EXCEPT !.syncStatus = "error"]

\* After the fetch of connect, for an answer other than NOT_FOUND,
\* App.tsx:205, 216-232.
ConnectFetchThen(res, cleanId, confirm, cur) ==
    IF res.success
    THEN IF res.hasData /\ Len(res.data) > 0 /\ confirm
         THEN ConnectSuccess([cur EXCEPT !.tasks = res.data], cleanId)
         ELSE ConnectSuccess(cur, cleanId)
    ELSE [cur EXCEPT !.syncStatus = "error"]

\* After the initialising push of connect, App.tsx:208-215, 224-226.
ConnectPushThen(initRes, cleanId, cur) ==
    IF initRes.success
    THEN ConnectSuccess(cur, cleanId)
    ELSE [cur EXCEPT !.syncStatus = "error"]

\* The click on the connect button, up to the first await, App.tsx:190-203.
\* The button is rendered only while no bucket is active (App.tsx:429, 493).
HandleConnectCloud(raw) ==
    /\ phase = "running"
    /\ cloudId = NoId
    /\ raw # <<>>
    /\ ops < MaxOps
    /\ ops' = ops + 1
    /\ LET cleanId == CleanId(raw)
       IN  IF ~IdAccepted(cleanId)
           THEN UNCHANGED <<syncStatus, net, newest>>
           ELSE /\ syncStatus' = "syncing"
                /\ net' = Append(net, Req("connFetch", cleanId, <<>>, tasks, syncStatus))
                /\ newest' = Newest("connFetch")
    /\ last' = Last("connect", NoReq, raw, FALSE)
    /\ UNCHANGED <<arg, ret, overtaken>>
    /\ UNCHANGED <<phase, tasks, cloudId, lastSyncTime, lsCloudId, lsTasks,
                   remote, now, pushFailed>>

\* The user's answer matters only where confirm() is called, App.tsx:218.
ConfirmAsked(res) ==
    res.success /\ res.error # "NOT_FOUND" /\ res.hasData /\ Len(res.data) > 0

ConnectFetchResolve(i, confirm) ==
    /\ net[i].kind = "connFetch" /\ net[i].resp.status # "pending"
    /\ LET res == FetchCloudTasksResult(net[i].resp)
           cleanId == net[i].id
       IN  /\ confirm => ConfirmAsked(res)
           /\ IF res.success /\ res.error = "NOT_FOUND"
              THEN /\ net' = Append(Remove(net, i),
                                    Req("connPush", cleanId, Stringify(net[i].capTasks),
                                        net[i].capTasks, net[i].capStatus))
                   /\ newest' = Newest("connPush")
                   /\ UNCHANGED <<tasks, cloudId, lsCloudId, syncStatus, lsTasks, pushFailed>>
              ELSE LET new == ConnectFetchThen(res, cleanId, confirm, Conn)
                   IN  /\ net' = Remove(net, i)
                       /\ tasks' = new.tasks
                       /\ cloudId' = new.cloudId
                       /\ lsCloudId' = new.lsCloudId
                       /\ syncStatus' = new.syncStatus
                       /\ lsTasks' = IF new.tasks # tasks THEN Stringify(new.tasks)
                                     ELSE lsTasks
                       /\ pushFailed' = (pushFailed /\ new.cloudId = cloudId)
                       /\ newest' = NewestAfter(i, res.success)
    /\ last' = Last("connFetchResolve", net[i], <<>>, confirm)
    /\ UNCHANGED <<arg, ret, overtaken>>
    /\ UNCHANGED <<phase, lastSyncTime, remote, now, ops>>

ConnectPushResolve(i) ==
    /\ net[i].kind = "connPush" /\ net[i].resp.status # "pending"
    /\ LET initRes == UpdateCloudTasksResult(net[i].resp)
           new == ConnectPushThen(initRes, net[i].id, Conn)
       IN  /\ tasks' = new.tasks
           /\ cloudId' = new.cloudId
           /\ lsCloudId' = new.lsCloudId
           /\ syncStatus' = new.syncStatus
           /\ lsTasks' = IF new.tasks # tasks THEN Stringify(new.tasks) ELSE lsTasks
           /\ pushFailed' = (pushFailed /\ new.cloudId = cloudId)
           /\ newest' = NewestAfter(i, initRes.success)
    /\ net' = Remove(net, i)
    /\ last' = Last("connPushResolve", net[i], <<>>, FALSE)
    /\ UNCHANGED <<arg, ret, overtaken>>
    /\ UNCHANGED <<phase, lastSyncTime, remote, now, ops>>

\* A disconnect that leaves the persisted identifier behind.
DisconnectKeepsItem(cur) ==
    [cur EXCEPT !.cloudId = NoId, !.syncStatus = "offline"]

\* The confirmed branch of handleDisconnectCloud, App.tsx:237-239.
Disconnect(cur) ==
    [cur EXCEPT !.cloudId = NoId, !.lsCloudId = NoId, !.syncStatus = "offline"]

\* The button is rendered only while a bucket is active (App.tsx:429, 460).
HandleDisconnectCloud(confirm) ==
    /\ phase = "running"
    /\ cloudId # NoId
    /\ LET new == IF confirm THEN Disconnect(Conn) ELSE Conn
       IN  /\ tasks' = new.tasks
           /\ cloudId' = new.cloudId
           /\ lsCloudId' = new.lsCloudId
           /\ syncStatus' = new.syncStatus
           /\ lsTasks' = IF new.tasks # tasks THEN Stringify(new.tasks) ELSE lsTasks
           /\ pushFailed' = (pushFailed /\ new.cloudId = cloudId)
    /\ last' = Last("disconnect", NoReq, <<>>, confirm)
    /\ UNCHANGED <<arg, ret, overtaken>>
    /\ UNCHANGED <<phase, lastSyncTime, remote, net, now, ops, newest>>

----------------------------------------------------------------------------
(* The whole client with its environment *)

Next ==
    \/ Mount
    \/ \E i \in DOMAIN net : InitFetchResolve(i)
    \/ \E i \in DOMAIN net, outcome \in {"ok", "500", "neterr"} : ServerHandle(i, outcome)
    \/ HandleCreateTask
    \/ \E i \in DOMAIN tasks, st \in NewStatuses : HandleUpdateStatus(tasks[i].id, st)
    \/ \E i \in DOMAIN net : PushResolve(i)
    \/ PollTick
    \/ \E i \in DOMAIN net : PollResolve(i)
    \/ \E raw \in RawIds : HandleConnectCloud(raw)
    \/ \E i \in DOMAIN net, confirm \in BOOLEAN : ConnectFetchResolve(i, confirm)
    \/ \E i \in DOMAIN net : ConnectPushResolve(i)
    \/ \E confirm \in BOOLEAN : HandleDisconnectCloud(confirm)

Spec == Init /\ [][Next]_vars

-----------------------------------------------------------------------------
(* The client with its scheduling: every request issued is answered by the *)
(* remote end or fails on the network, and the event loop runs the         *)
(* continuation of every answered request.                                 *)

Answered ==
    WF_vars(\E i \in DOMAIN net, outcome \in {"ok", "500", "neterr"} :
                ServerHandle(i, outcome))

Continued ==
    /\ WF_vars(\E i \in DOMAIN net : InitFetchResolve(i))
    /\ WF_vars(\E i \in DOMAIN net : PushResolve(i))
    /\ WF_vars(\E i \in DOMAIN net : PollResolve(i))
    /\ WF_vars(\E i \in DOMAIN net, confirm \in BOOLEAN : ConnectFetchResolve(i, confirm))
    /\ WF_vars(\E i \in DOMAIN net : ConnectPushResolve(i))

SpecFair == Init /\ [][Next]_vars /\ Answered /\ Continued

-----------------------------------------------------------------------------
(* The same client on a network on which every request succeeds: the       *)
(* store answers each request, in any order, and none fails.               *)

NextReliable ==
    \/ Mount
    \/ \E i \in DOMAIN net : InitFetchResolve(i)
    \/ \E i \in DOMAIN net : ServerHandle(i, "ok")
    \/ HandleCreateTask
    \/ \E i \in DOMAIN tasks, st \in NewStatuses : HandleUpdateStatus(tasks[i].id, st)
    \/ \E i \in DOMAIN net : PushResolve(i)
    \/ PollTick
    \/ \E i \in DOMAIN net : PollResolve(i)
    \/ \E raw \in RawIds : HandleConnectCloud(raw)
    \/ \E i \in DOMAIN net, confirm \in BOOLEAN : ConnectFetchResolve(i, confirm)
    \/ \E i \in DOMAIN net : ConnectPushResolve(i)
    \/ \E confirm \in BOOLEAN : HandleDisconnectCloud(confirm)

SpecReliable == Init /\ [][NextReliable]_vars

----------------------------------------------------------------------------
(* The remote sync client on its own (src/unnamed/part_001): calls of      *)
(* fetchCloudTasks and updateCloudTasks for one bucket, with every answer  *)
(* the network can give.                                                   *)

\* The longest collection the client is given to push.
MaxTasks == 2

TaskValues ==
    {TaskWithImage(id, st, img) :
        id \in {"t1"}, st \in Statuses, img \in {"undefined", "img"}}

Collections == UNION {[1..n -> TaskValues] : n \in 0..MaxTasks}

\* Response bodies: the array of the tasks ts, JSON that is no array, text
\* that is no JSON, and no text at all.
Bodies(ts) == {Stringify(ts), <<"{}">>, <<"<html>">>, <<>>}

\* What a request can be answered with: an HTTP status with a body, or no
\* answer at all (fetch throws).
Answers(ts) ==
    {Resp(st, tx) : st \in {"200", "404", "403", "500"}, tx \in Bodies(ts)}
        \cup {Resp("neterr", <<>>)}

\* The caller holds some collection; the bucket does not exist yet.
InitClient ==
    /\ phase = "running"
    /\ tasks \in Collections
    /\ cloudId \in Buckets
    /\ syncStatus = "online"
    /\ now = 0
    /\ lastSyncTime = now
    /\ lsCloudId = cloudId
    /\ lsTasks = Stringify(tasks)
    /\ remote = [b \in Buckets |-> Absent]
    /\ net = <<>>
    /\ last = Last("none", NoReq, <<>>, FALSE)
    /\ pushFailed = FALSE
    /\ newest = [kind |-> "none", end |-> "none"]
    /\ overtaken = FALSE
    /\ ops = 0
    /\ arg = NoArg
    /\ ret = NoRet

\* fetchCloudTasks(cloudId), part_001:15-41, answered by the store or by
\* anything else on the way.
CallFetchCloudTasks(resp) ==
    /\ arg' = Call("fetchCloudTasks", cloudId, resp, <<>>)
    /\ ret' = Returned("fetchCloudTasks", FetchCloudTasksResult(resp), NoId)
    /\ UNCHANGED <<phase, tasks, cloudId, syncStatus, lastSyncTime, lsCloudId,
                   lsTasks, remote, net, now, last, pushFailed, newest, overtaken, ops>>

\* updateCloudTasks(cloudId, tasks), part_001:44-64: one POST of
\* JSON.stringify(tasks), which the store takes and answers with 200, or
\* which fails on the way.
CallUpdateCloudTasks(resp) ==
    /\ remote' = IF resp.status = "200"
                 THEN HttpPost(remote, cloudId, Stringify(tasks))
                 ELSE remote
    /\ arg' = Call("updateCloudTasks", cloudId, resp, <<>>)
    /\ ret' = Returned("updateCloudTasks", UpdateCloudTasksResult(resp), NoId)
    /\ UNCHANGED <<phase, tasks, cloudId, syncStatus, lastSyncTime, lsCloudId,
                   lsTasks, net, now, last, pushFailed, newest, overtaken, ops>>

NextClient ==
    \/ \E resp \in {HttpGet(remote, cloudId)} \cup Answers(tasks) :
           CallFetchCloudTasks(resp)
    \/ \E resp \in {Resp("200", <<>>)} \cup {a \in Answers(tasks) : a.status # "200"} :
           CallUpdateCloudTasks(resp)

SpecClient == InitClient /\ [][NextClient]_vars

----------------------------------------------------------------------------
(* The normalisation of the factory code on its own (App.tsx:193-198):     *)
(* applied to a typed text, and applied again to its own result.           *)

\* The longest text typed, apart from the example of the description.
MaxRawLen == 3

Alphabet == {"a", "Z", "7", "-", "_", " ", "\t", "!"}

ErkanUsta == <<"E", "r", "k", "a", "n", " ", "U", "s", "t", "a", "!">>

RawStrings == UNION {[1..n -> Alphabet] : n \in 0..MaxRawLen} \cup {ErkanUsta}

\* The connect form is open (no bucket active) and some text is typed.
InitNormalize ==
    /\ phase = "running"
    /\ tasks = INITIAL_TASKS
    /\ cloudId = NoId
    /\ syncStatus = "offline"
    /\ now = 0
    /\ lastSyncTime = now
    /\ lsCloudId = NoId
    /\ lsTasks = Stringify(tasks)
    /\ remote = [b \in Buckets |-> Absent]
    /\ net = <<>>
    /\ last = Last("none", NoReq, <<>>, FALSE)
    /\ pushFailed = FALSE
    /\ newest = [kind |-> "none", end |-> "none"]
    /\ overtaken = FALSE
    /\ ops = 0
    /\ arg \in {Call("cleanId", NoId, NoResp, raw) : raw \in RawStrings}
    /\ ret = NoRet

\* const cleanId = inputCloudId.trim().replace(...).toLowerCase()
Normalize ==
    /\ arg.fn = "cleanId" /\ ret.fn = "none"
    /\ ret' = Returned("cleanId", NoRet.result, CleanId(arg.raw))
    /\ UNCHANGED <<phase, tasks, cloudId, syncStatus, lastSyncTime, lsCloudId,
                   lsTasks, remote, net, now, last, pushFailed, newest, overtaken, ops, arg>>

\* The identifier obtained is typed in again and normalised once more.
NormalizeAgain ==
    /\ arg.fn = "cleanId" /\ ret.fn = "cleanId"
    /\ arg' = Call("cleanIdAgain", NoId, NoResp, ret.id)
    /\ ret' = Returned("cleanIdAgain", NoRet.result, CleanId(ret.id))
    /\ UNCHANGED <<phase, tasks, cloudId, syncStatus, lastSyncTime, lsCloudId,
                   lsTasks, remote, net, now, last, pushFailed, newest, overtaken, ops>>

NextNormalize == Normalize \/ NormalizeAgain

SpecNormalize == InitNormalize /\ [][NextNormalize]_vars

----------------------------------------------------------------------------
(* Vocabulary of the properties. In an action formula last' names the step *)
(* being taken and the unprimed variables its pre-state.                   *)

Mutations == {"createTask", "updateStatus"}

Failed(resp) == resp.status \in {"500", "neterr"}

\* The collection a successful fetch delivers (empty for 404 and non-arrays).
Fetched(resp) == IF resp.status = "200" THEN JsonParse(resp.text).data ELSE <<>>

FetchOk(resp) ==
    \/ resp.status = "404"
    \/ resp.status = "200" /\ JsonParse(resp.text).kind # "throws"

\* The step being taken completes a request of this kind.
Completes(op) == last'.op = op

\* The request issued by the step being taken, if it issued one.
Issued == net'[Len(net')]

----------------------------------------------------------------------------
(* C1 *)

\* C1: the completion of a mutation's push, successful or failed and in
\* whatever order pushes complete, leaves the task collection (and its
\* persisted copy) as the local mutations made it: it writes only the sync
\* status and the last-sync timestamp; a local mutation sets the collection
\* to the mutated one in the same step.
C1_PushNeverWritesTasks ==
    [][ /\ Completes("pushResolve") =>
              /\ tasks' = tasks /\ lsTasks' = lsTasks
              /\ cloudId' = cloudId /\ lsCloudId' = lsCloudId /\ remote' = remote
        /\ Completes("createTask") => Tail(tasks') = tasks
        /\ Completes("updateStatus") =>
              \E i \in DOMAIN tasks, st \in Statuses :
                  tasks' = MapStatus(tasks, tasks[i].id, st)
      ]_vars

\* P1 completed after the later mutation M2: the store holds M2's result,
\* not the collection P1 pushed, and P2 is still in flight.
C1_Witness ==
    /\ last.op = "pushResolve"
    /\ last.req.body # Stringify(tasks)
    /\ \E j \in DOMAIN net : net[j].kind = "push" /\ net[j].body = Stringify(tasks)

----------------------------------------------------------------------------
(* C2 *)

\* C2 as stated: once a mutation push to the active bucket has failed, and
\* while that bucket stays active, only local mutations change the task
\* collection: no later poll or other sync step does.
C2_LocalStaysTruthForever ==
    [][ (pushFailed /\ cloudId # NoId /\ cloudId' = cloudId
         /\ last'.op \notin Mutations) => tasks' = tasks ]_vars

\* C2 amended: handling the failed push sets the status to error and leaves
\* the task collection and the timestamp alone (no rollback); afterwards
\* the collection changes only by a local mutation or by a fetch (poll,
\* startup fetch, confirmed connect) that delivers a non-empty collection,
\* which replaces it.
C2_NoRollbackUntilFetch ==
    [][ /\ (Completes("pushResolve") /\ Failed(last'.req.resp)) =>
              /\ tasks' = tasks /\ lsTasks' = lsTasks
              /\ lastSyncTime' = lastSyncTime
              /\ syncStatus' = "error"
        /\ (pushFailed /\ tasks' # tasks) =>
              \/ last'.op \in Mutations
              \/ /\ last'.op \in {"pollResolve", "initResolve", "connFetchResolve"}
                 /\ FetchOk(last'.req.resp)
                 /\ Fetched(last'.req.resp) # <<>>
                 /\ tasks' = Fetched(last'.req.resp)
      ]_vars

\* A push has just failed and the store still holds the collection it sent.
C2_Witness ==
    /\ last.op = "pushResolve"
    /\ Failed(last.req.resp)
    /\ pushFailed
    /\ cloudId # NoId
    /\ syncStatus = "error"
    /\ Stringify(tasks) = last.req.body
    /\ tasks # last.req.capTasks

----------------------------------------------------------------------------
(* C3 *)

\* C3: a poll whose fetch delivers a non-empty collection structurally equal
\* to the task collection at the moment the result is applied changes
\* neither the collection nor the last-sync timestamp.
C3_EqualPollChangesNothing ==
    [][ ( /\ Completes("pollResolve")
          /\ FetchOk(last'.req.resp)
          /\ Fetched(last'.req.resp) # <<>>
          /\ Stringify(Fetched(last'.req.resp)) = Stringify(tasks) )
        => /\ tasks' = tasks
           /\ lastSyncTime' = lastSyncTime ]_vars

----------------------------------------------------------------------------
(* C4 *)

\* C4: a poll whose fetch delivers a non-empty collection different from
\* the current local one replaces the local collection by it and records a
\* new timestamp; after any poll that delivers a non-empty collection the
\* status is online.
C4_DifferentPollReplaces ==
    [][ ( /\ Completes("pollResolve")
          /\ FetchOk(last'.req.resp)
          /\ Fetched(last'.req.resp) # <<>> )
        => /\ syncStatus' = "online"
           /\ Stringify(Fetched(last'.req.resp)) # Stringify(tasks) =>
                 /\ tasks' = Fetched(last'.req.resp)
                 /\ lastSyncTime' = now' /\ lastSyncTime' # lastSyncTime ]_vars

----------------------------------------------------------------------------
(* C5 *)

\* C5: when the fetch of connect signals not-found, the push that connect
\* issues carries the task collection current at that moment; when that
\* push fails the status becomes error and the bucket id is neither
\* activated nor persisted, when it succeeds the bucket id is active and
\* persisted and the status is online.
C5_ConnectInitialisesWithCurrent ==
    [][ /\ (Completes("connFetchResolve") /\ last'.req.resp.status = "404") =>
              /\ Issued.kind = "connPush"
              /\ Issued.id = last'.req.id
              /\ Issued.body = Stringify(tasks)
        /\ Completes("connPushResolve") =>
              IF Failed(last'.req.resp)
              THEN /\ syncStatus' = "error"
                   /\ cloudId' = cloudId /\ lsCloudId' = lsCloudId
              ELSE /\ syncStatus' = "online"
                   /\ cloudId' = last'.req.id /\ lsCloudId' = last'.req.id
      ]_vars

----------------------------------------------------------------------------
(* C6 *)

\* C6: when the fetch of connect succeeds on an existing bucket, the bucket
\* id becomes active and the status online; the task collection becomes the
\* remote one if that is non-empty and the user confirms, and is left
\* unchanged otherwise.
C6_ConnectExistingBucket ==
    [][ ( /\ Completes("connFetchResolve")
          /\ last'.req.resp.status = "200"
          /\ JsonParse(last'.req.resp.text).kind # "throws" )
        => /\ cloudId' = last'.req.id
           /\ syncStatus' = "online"
           /\ tasks' = IF Fetched(last'.req.resp) # <<>> /\ last'.confirm
                       THEN Fetched(last'.req.resp) ELSE tasks ]_vars

\* connect found a non-empty bucket, the user confirmed, and the remote
\* collection (which differs from what connect started with) was loaded.
C6_Witness ==
    /\ last.op = "connFetchResolve"
    /\ last.req.resp.status = "200"
    /\ last.confirm
    /\ Fetched(last.req.resp) # <<>>
    /\ tasks = Fetched(last.req.resp)
    /\ tasks # last.req.capTasks
    /\ cloudId = last.req.id
    /\ syncStatus = "online"

----------------------------------------------------------------------------
(* C7 *)

\* C7: when the fetch of connect fails (network failure or an HTTP status
\* other than success and 404) the status becomes error, the bucket id is
\* neither activated nor persisted, the task collection is unchanged and no
\* request is issued.
C7_ConnectFetchFailure ==
    [][ (Completes("connFetchResolve") /\ Failed(last'.req.resp))
        => /\ syncStatus' = "error"
           /\ cloudId' = cloudId /\ lsCloudId' = lsCloudId
           /\ tasks' = tasks /\ lsTasks' = lsTasks
           /\ remote' = remote
           /\ Len(net') = Len(net) - 1
           /\ \A j \in DOMAIN net' : \E k \in DOMAIN net : net'[j] = net[k] ]_vars

\* The fetch of connect failed: status error, nothing activated.
C7_Witness ==
    /\ last.op = "connFetchResolve"
    /\ Failed(last.req.resp)
    /\ syncStatus = "error"
    /\ cloudId = NoId /\ lsCloudId = NoId

----------------------------------------------------------------------------
(* C8 *)

\* C8: connect with an identifier whose normalized length is below 3 issues
\* no request and changes neither the status, the active or persisted
\* bucket id, nor the task collection.
C8_ShortIdRejected ==
    [][ (Completes("connect") /\ Len(CleanId(last'.raw)) < 3)
        => /\ net' = net
           /\ UNCHANGED <<syncStatus, cloudId, lsCloudId, tasks, lsTasks,
                          lastSyncTime, remote>> ]_vars

\* A connect was attempted with text that is long enough as typed and too
\* short once normalized.
C8_Witness ==
    /\ last.op = "connect"
    /\ Len(last.raw) >= 3
    /\ Len(CleanId(last.raw)) < 3

----------------------------------------------------------------------------
(* C9 *)

\* C9: a confirmed disconnect clears the active bucket id, removes the
\* persisted bucket id and sets the status to offline; it leaves the task
\* collection and its persisted copy unchanged.
C9_Disconnect ==
    [][ (Completes("disconnect") /\ last'.confirm)
        => /\ cloudId' = NoId
           /\ lsCloudId' = NoId
           /\ syncStatus' = "offline"
           /\ tasks' = tasks /\ lsTasks' = lsTasks ]_vars

\* A bucket that was active has been disconnected; the tasks are still there.
C9_Witness ==
    /\ last.op = "disconnect" /\ last.confirm
    /\ cloudId = NoId /\ lsCloudId = NoId
    /\ syncStatus = "offline"
    /\ tasks # <<>>

----------------------------------------------------------------------------
(* C10 *)

\* C10: a poll fetch is started only while a bucket id is active, and it
\* addresses that bucket: none before a bucket is active, none after a
\* disconnect until a bucket is active again.
C10_PollOnlyWhileActive ==
    [][ (Len(net') = Len(net) + 1 /\ Issued.kind = "poll")
        => /\ cloudId # NoId
           /\ Issued.id = cloudId ]_vars

\* A poll fetch has just been started for the active bucket.
C10_Witness ==
    /\ last.op = "pollTick"
    /\ cloudId # NoId
    /\ net[Len(net)].kind = "poll" /\ net[Len(net)].id = cloudId

----------------------------------------------------------------------------
(* C11 *)

\* C11: a mutation made while a bucket is active puts the new collection into
\* the task store and sets the status to syncing in the same step, with the
\* push of that collection to the active bucket issued and not yet answered;
\* the completion of a push sets the status to online and records the time of
\* completion as last sync time when the push succeeded, and sets the status
\* to error when it failed; a mutation made with no bucket active changes the
\* task store only: no request is issued and the status stays as it was.
C11_Mutated ==
    \/ last'.op = "createTask" /\ Len(tasks') = Len(tasks) + 1 /\ Tail(tasks') = tasks
    \/ /\ last'.op = "updateStatus"
       /\ \E i \in DOMAIN tasks, st \in Statuses :
              tasks' = MapStatus(tasks, tasks[i].id, st)

C11_MutationAndPush ==
    [][ /\ (last'.op \in Mutations /\ cloudId # NoId) =>
              /\ syncStatus' = "syncing"
              /\ C11_Mutated
              /\ Len(net') = Len(net) + 1
              /\ Issued.kind = "push" /\ Issued.id = cloudId
              /\ Issued.body = Stringify(tasks')
              /\ Issued.resp.status = "pending"
              /\ remote' = remote
        /\ (last'.op \in Mutations /\ cloudId = NoId) =>
              /\ C11_Mutated
              /\ net' = net /\ remote' = remote
              /\ syncStatus' = syncStatus
              /\ cloudId' = cloudId /\ lastSyncTime' = lastSyncTime
        /\ (Completes("pushResolve") /\ ~Failed(last'.req.resp)) =>
              /\ syncStatus' = "online"
              /\ lastSyncTime' = now' /\ now' > now
        /\ (Completes("pushResolve") /\ Failed(last'.req.resp)) =>
              /\ syncStatus' = "error"
              /\ lastSyncTime' = lastSyncTime
      ]_vars

\* A mutation was pushed for the active bucket and the push has just
\* succeeded: the status is online and the sync time is the time of that
\* completion, while the store holds the mutated collection.
C11_Witness ==
    /\ last.op = "pushResolve"
    /\ ~Failed(last.req.resp)
    /\ last.req.id = cloudId
    /\ last.req.capStatus # "syncing"
    /\ Stringify(tasks) = last.req.body
    /\ syncStatus = "online"
    /\ lastSyncTime = now /\ now > 0

----------------------------------------------------------------------------
(* C12 *)

\* C12: whenever a bucket is active and no remote operation is in flight, the
\* status is online if the remote operation issued last succeeded and error
\* if it failed, also when two pushes were in flight at once and completed in
\* the opposite order to the order of issue. Stated for the operation the
\* claim singles out, a mutation push being the operation issued last.
C12_StatusOfNewestOperation ==
    (phase = "running" /\ cloudId # NoId /\ net = <<>> /\ newest.kind = "push")
        => syncStatus = IF newest.end = "ok" THEN "online" ELSE "error"

\* C12, amended: the status is set by the operation that completes last.
\* Every completion of a mutation push, of the startup fetch, of the fetch of
\* a connect (unless it found no bucket and goes on to the initialising push)
\* and of the initialising push sets the status to online when that operation
\* succeeded and to error when it failed, whatever was issued after it.
C12_StatusOfLastCompletion ==
    [][ /\ (Completes("pushResolve") \/ Completes("connPushResolve")) =>
              syncStatus' = IF Failed(last'.req.resp) THEN "error" ELSE "online"
        /\ (Completes("initResolve")
              \/ (Completes("connFetchResolve") /\ last'.req.resp.status # "404")) =>
              syncStatus' = IF FetchOk(last'.req.resp) THEN "online" ELSE "error"
      ]_vars

\* Two mutations were pushed for the active bucket; the push issued last
\* succeeded, the older one failed and completed after it: nothing is in
\* flight and the status is error.
C12_Witness ==
    /\ last.op = "pushResolve"
    /\ Failed(last.req.resp)
    /\ newest = [kind |-> "push", end |-> "ok"]
    /\ Len(tasks) = Len(last.req.capTasks) + 2
    /\ last.req.id = cloudId
    /\ net = <<>>
    /\ syncStatus = "error"

----------------------------------------------------------------------------
(* C13 *)

\* C13: every failed remote operation leaves the status equal to error when
\* its failure is handled: the fetch and the initialising push of a connect,
\* a mutation push, the startup fetch and a poll fetch. For the poll the
\* statement is made where the status was online when the failure arrived,
\* the case in which the failure is to be surfaced according to the
\* description of the poll loop as well.
C13_EveryFailureShowsError ==
    [][ /\ ((Completes("pushResolve") \/ Completes("connPushResolve"))
              /\ Failed(last'.req.resp)) => syncStatus' = "error"
        /\ ((Completes("initResolve") \/ Completes("connFetchResolve"))
              /\ ~FetchOk(last'.req.resp)) => syncStatus' = "error"
        /\ (Completes("pollResolve") /\ ~FetchOk(last'.req.resp)
              /\ syncStatus = "online") => syncStatus' = "error"
      ]_vars

----------------------------------------------------------------------------
(* C14 *)

\* C14: a poll whose fetch failed changes neither the task store (nor its
\* persisted copy) nor the last sync time, and leaves the status as it was
\* whenever the status was not online; a poll whose fetch succeeded with an
\* empty collection changes neither the task store, nor the last sync time,
\* nor the status.
C14_FailedOrEmptyPollChangesNothing ==
    [][ /\ (Completes("pollResolve") /\ ~FetchOk(last'.req.resp)) =>
              /\ tasks' = tasks /\ lsTasks' = lsTasks
              /\ lastSyncTime' = lastSyncTime
              /\ syncStatus # "online" => syncStatus' = syncStatus
        /\ (Completes("pollResolve") /\ FetchOk(last'.req.resp)
              /\ Fetched(last'.req.resp) = <<>>) =>
              /\ tasks' = tasks /\ lsTasks' = lsTasks
              /\ lastSyncTime' = lastSyncTime
              /\ syncStatus' = syncStatus
      ]_vars

\* A poll of the active bucket has just failed while the status was error:
\* the status is still error and the store is the one the poll started with.
C14_Witness ==
    /\ last.op = "pollResolve"
    /\ Failed(last.req.resp)
    /\ last.req.id = cloudId
    /\ last.req.capStatus = "error"
    /\ syncStatus = "error"
    /\ tasks = last.req.capTasks

----------------------------------------------------------------------------
(* C15 *)

\* C15: fetchCloudTasks maps every answer to one result: status 200 with the
\* array of a collection gives success with that collection; status 200 with
\* JSON that is no array gives success with the empty collection and no
\* NOT_FOUND mark; status 404 gives success with the empty collection and
\* the NOT_FOUND mark; any other status gives a failure without data; the
\* NOT_FOUND mark is present exactly when the status was 404.
C15_FetchResultOfEveryAnswer ==
    arg.fn = "fetchCloudTasks" =>
        LET a == arg.resp
            r == ret.result
        IN  /\ ret.fn = "fetchCloudTasks"
            /\ \A ts \in Collections :
                   (a.status = "200" /\ a.text = Stringify(ts))
                       => r = Result(TRUE, TRUE, ts, "none")
            /\ (a.status = "200" /\ a.text = <<"{}">>)
                   => r = Result(TRUE, TRUE, <<>>, "none")
            /\ a.status = "404" => r = Result(TRUE, TRUE, <<>>, "NOT_FOUND")
            /\ a.status \in {"403", "500"} => (~r.success /\ ~r.hasData)
            /\ (r.error = "NOT_FOUND") <=> (a.status = "404")

\* fetchCloudTasks was answered with status 200 and the array of a
\* collection of two tasks, one of them without an image, and returned
\* success with that collection.
C15_Witness ==
    /\ arg.fn = "fetchCloudTasks"
    /\ arg.resp.status = "200"
    /\ arg.resp.text = Stringify(tasks)
    /\ Len(tasks) = 2
    /\ tasks[1].imageUrl = "undefined" /\ tasks[2].imageUrl # "undefined"
    /\ ret.result = Result(TRUE, TRUE, tasks, "none")

----------------------------------------------------------------------------
(* C16 *)

\* C16: every call of fetchCloudTasks and updateCloudTasks returns a result,
\* whatever the answer: a network failure gives a failure result for both,
\* and so does a body fetchCloudTasks cannot parse; updateCloudTasks returns
\* success exactly when the HTTP status says success, and then without data;
\* a push that failed is not repeated, so the store keeps what it held; and
\* no call changes the state of the application.
C16_ClientNeverThrows ==
    [][ LET a == arg'.resp
            r == ret'.result
        IN  /\ ret'.fn = arg'.fn
            /\ arg'.fn \in {"fetchCloudTasks", "updateCloudTasks"}
            /\ r.success \in BOOLEAN
            /\ r.error \in {"none", "NOT_FOUND", "remote", "offline"}
            /\ a.status = "neterr" => ~r.success
            /\ (arg'.fn = "fetchCloudTasks" /\ a.status = "200"
                  /\ a.text \in {<<"<html>">>, <<>>}) => ~r.success
            /\ arg'.fn = "updateCloudTasks" =>
                  /\ r.success <=> (a.status = "200")
                  /\ ~r.hasData /\ r.data = <<>>
                  /\ ~r.success => remote' = remote
            /\ UNCHANGED <<tasks, cloudId, syncStatus, lastSyncTime,
                           lsCloudId, lsTasks>>
      ]_vars

\* updateCloudTasks was called while the network was down: it returned a
\* failure and the bucket still does not exist.
C16_Witness ==
    /\ arg.fn = "updateCloudTasks"
    /\ arg.resp.status = "neterr"
    /\ ret.result = Result(FALSE, FALSE, <<>>, "offline")
    /\ ~remote[cloudId].exists

----------------------------------------------------------------------------
(* C17 *)

\* C17: a fetch answered by the store returns success with the empty
\* collection and the NOT_FOUND mark as long as the bucket does not exist;
\* once the collection the caller holds was pushed successfully, nothing
\* else having written the bucket, a fetch answered by the store returns
\* success with exactly that collection and without the mark.
C17_RoundTrip ==
    (arg.fn = "fetchCloudTasks" /\ arg.resp = HttpGet(remote, cloudId)) =>
        IF remote[cloudId].exists
        THEN ret.result = Result(TRUE, TRUE, tasks, "none")
        ELSE ret.result = Result(TRUE, TRUE, <<>>, "NOT_FOUND")

\* A collection of two tasks, one with and one without an image, was pushed
\* and then fetched from the store: the fetch returned it unchanged.
C17_Witness ==
    /\ arg.fn = "fetchCloudTasks"
    /\ remote[cloudId] = Stored(Stringify(tasks))
    /\ arg.resp = HttpGet(remote, cloudId)
    /\ Len(tasks) = 2
    /\ tasks[1].imageUrl # "undefined" /\ tasks[2].imageUrl = "undefined"
    /\ tasks[1].status # tasks[2].status
    /\ ret.result.data = tasks
    /\ ret.result.error = "none"

----------------------------------------------------------------------------
(* C18 *)

\* C18: normalising is idempotent: when the identifier obtained from any
\* typed text is normalised again, the result is that identifier.
C18_NormalizeIdempotent ==
    arg.fn = "cleanIdAgain" => (ret.fn = "cleanIdAgain" /\ ret.id = arg.raw)

\* The identifier z-, obtained from a typed text, was normalised again and
\* came out as z-.
C18_Witness ==
    /\ arg.fn = "cleanIdAgain"
    /\ arg.raw = <<"z", "-">>
    /\ ret.id = <<"z", "-">>

----------------------------------------------------------------------------
(* C19 *)

\* C19: the identifier is the typed text without the white space around it,
\* each character that is no letter (a-z, A-Z), digit, hyphen or underscore
\* replaced by one hyphen, and the letters in lower case: it is as long as
\* the trimmed text and holds lower-case letters, digits, hyphens and
\* underscores only; "Erkan Usta!" gives "erkan-usta-", which is accepted
\* since it has at least 3 characters.
C19_NormalizedIdentifier ==
    arg.fn = "cleanId" /\ ret.fn = "cleanId" =>
        LET s == arg.raw
            out == ret.id
        IN  /\ \E i \in 1..Len(s) + 1, j \in 0..Len(s) :
                   LET t == SubSeq(s, i, j)
                   IN  /\ \A k \in 1..Len(s) :
                              (k < i \/ k > j) => s[k] \in WhiteSpace
                       /\ t # <<>> => (t[1] \notin WhiteSpace
                                        /\ t[Len(t)] \notin WhiteSpace)
                       /\ Len(out) = Len(t)
                       /\ \A k \in 1..Len(t) :
                              out[k] = IF t[k] \in Range(LowerCase) \cup Digits
                                                     \cup {"-", "_"}
                                       THEN t[k]
                                       ELSE IF t[k] \in Range(UpperCase)
                                       THEN ToLowerChar(t[k])
                                       ELSE "-"
            /\ \A k \in 1..Len(out) :
                   out[k] \in Range(LowerCase) \cup Digits \cup {"-", "_"}
            /\ s = ErkanUsta =>
                   /\ out = <<"e", "r", "k", "a", "n", "-", "u", "s", "t", "a", "-">>
                   /\ IdAccepted(out)

\* "Erkan Usta!" was typed and normalised to "erkan-usta-".
C19_Witness ==
    /\ arg.fn = "cleanId"
    /\ arg.raw = ErkanUsta
    /\ ret.fn = "cleanId"
    /\ ret.id = <<"e", "r", "k", "a", "n", "-", "u", "s", "t", "a", "-">>

----------------------------------------------------------------------------
(* C20 *)

\* C20: the persisted task collection mirrors the task store: once the mount
\* effects have run, after every step (a local mutation, a poll, a connect
\* or the startup load replacing the collection, or any other step) the
\* text stored under hidro_tasks is the serialisation of the collection in
\* memory and parses back to it.
C20_PersistedMirrorsTasks ==
    phase = "running" =>
        /\ lsTasks = Stringify(tasks)
        /\ JsonParse(lsTasks) = [kind |-> "array", data |-> tasks]

\* A poll has just replaced the collection in memory by the remote one, and
\* the persisted text is that of the new collection.
C20_Witness ==
    /\ last.op = "pollResolve"
    /\ FetchOk(last.req.resp)
    /\ tasks = Fetched(last.req.resp)
    /\ Stringify(tasks) # Stringify(last.req.capTasks)
    /\ lsTasks = Stringify(tasks)

----------------------------------------------------------------------------
(* C21 *)

\* C21: last fetch wins: a poll that was started before a local mutation and
\* whose fetch, completing after the mutation, delivers a non-empty
\* collection different from the one in the task store replaces the store
\* by the fetched collection, the local edit being overwritten. The poll
\* is known to be older than the mutation where the request issued last is
\* the push of a mutation.
C21_StalePollOverwritesEdit ==
    [][ (/\ Completes("pollResolve")
         /\ newest.kind = "push"
         /\ FetchOk(last'.req.resp)
         /\ Fetched(last'.req.resp) # <<>>
         /\ Stringify(Fetched(last'.req.resp)) # Stringify(tasks))
            => tasks' = Fetched(last'.req.resp)
      ]_vars

----------------------------------------------------------------------------
(* C22 *)

\* C22: after a confirmed disconnect and until the next connect, the status
\* stays offline and the task store is not changed by the synchronisation:
\* a push or a poll fetch that was in flight when the bucket was left is
\* ignored when it completes. With no bucket active the status is offline
\* only as long as no connect was accepted since the disconnect, and a push
\* or a poll can only be in flight from before it.
C22_LateResultsIgnoredAfterDisconnect ==
    [][ (/\ cloudId = NoId /\ syncStatus = "offline"
         /\ (Completes("pushResolve") \/ Completes("pollResolve")))
            => (syncStatus' = "offline" /\ tasks' = tasks)
      ]_vars

----------------------------------------------------------------------------
(* C23 *)

\* C23: once the mount effects have read the persisted configuration, the
\* bucket id persisted under hidro_cloud_id is present exactly when a bucket
\* is active, and is then the id of the active bucket; connects with all
\* their outcomes, disconnects, pushes and polls keep it so.
C23_PersistedIdIsActiveId ==
    phase = "running" =>
        /\ (lsCloudId # NoId) <=> (cloudId # NoId)
        /\ lsCloudId # NoId => lsCloudId = cloudId

\* A connect has just created the bucket with its initialising push: the
\* bucket is active and its id is the one persisted.
C23_Witness ==
    /\ last.op = "connPushResolve"
    /\ ~Failed(last.req.resp)
    /\ cloudId = last.req.id
    /\ lsCloudId = cloudId
    /\ cloudId # NoId

----------------------------------------------------------------------------
(* C24 *)

\* The text is the serialisation of a collection that one local mutation
\* makes of the collection before: a new task in front, or one status set.
C24_Produced(text, before) ==
    \/ \E n \in 1..MaxOps :
           text = Stringify(<<Task(NewTaskId(n), "PENDING")>> \o before)
    \/ \E i \in DOMAIN before, st \in NewStatuses :
           text = Stringify(MapStatus(before, before[i].id, st))

\* The push of the last local mutation completes with nothing else in
\* flight: it is the request issued last, of the active bucket, and the only
\* one on the network.
C24_LastPushCompletes ==
    /\ Completes("pushResolve")
    /\ Len(net) = 1
    /\ newest = Newest("push")
    /\ cloudId # NoId
    /\ last'.req.id = cloudId

\* C24 as stated: on a network on which every request succeeds, once the
\* push of the last local mutation has completed and no request is in
\* flight, the remote collection is the collection that mutation produced,
\* also when the pushes reached the store in another order than issued.
C24_RemoteIsLastMutation ==
    [][ C24_LastPushCompletes => remote'[cloudId] = Stored(last'.req.body) ]_vars

\* C24, amended: on a network on which every request succeeds, when the push
\* of the last local mutation completes with nothing else in flight and no
\* write has reached the store ahead of an older one, the store holds the
\* collection that mutation produced, and the completion leaves the local
\* collection alone. (When a newer push reaches the store first, the store
\* keeps the collection of the older one: last push to land wins.)
C24_InOrderRemoteIsLastMutation ==
    [][ (C24_LastPushCompletes /\ ~overtaken)
            => /\ remote'[cloudId] = Stored(last'.req.body)
               /\ C24_Produced(last'.req.body, last'.req.capTasks)
               /\ tasks' = tasks
      ]_vars

\* Two local mutations were pushed, their writes reached the store in the
\* order issued, the push of the second has just completed, nothing is in
\* flight, and the store holds the collection of the second.
C24_Witness ==
    /\ last.op = "pushResolve"
    /\ ops = 2
    /\ net = <<>>
    /\ newest = [kind |-> "push", end |-> "ok"]
    /\ ~overtaken
    /\ cloudId # NoId
    /\ last.req.id = cloudId
    /\ remote[cloudId] = Stored(last.req.body)
    /\ Len(last.req.capTasks) > 0

----------------------------------------------------------------------------
(* C25 *)

\* C25: the status never stays syncing forever: when every request issued
\* is answered or fails on the network and every continuation runs, each
\* state with status syncing (startup with a persisted bucket id, connect,
\* push of a mutation) is followed by a state with status online, error or
\* offline.
C25_SyncingEnds ==
    (syncStatus = "syncing") ~> (syncStatus \in {"online", "error", "offline"})

\* The startup fetch, issued with the status set to syncing, has failed on
\* the network before anything else was done, and its continuation has
\* ended the syncing with error.
C25_Witness ==
    /\ last.op = "initResolve"
    /\ ops = 0
    /\ last.req.resp.status = "neterr"
    /\ syncStatus = "error"

====
